---- MODULE Spec2Model ----
(***************************************************************************)
(* Retrieval core of the RAG backend: chunkText / getEmbeddings /          *)
(* indexDocument / searchSimilarChunks / initializeElasticsearch           *)
(* (backend/controllers/documentController.js), the /upload, /query,       *)
(* /documents routes (backend/routes/ragRoutes.js) and the start-up hook   *)
(* (backend/server.js).  Strings are sequences of one-character strings;   *)
(* a state holds a string as its index in StringTable.                     *)
(* Every `await` is a suspension point: the code between two awaits is one *)
(* atomic step, and steps of different requests interleave.                *)
(***************************************************************************)
EXTENDS Integers, Sequences, FiniteSets, TLC

(***************************************************************************)
(* Bounds of the model                                                     *)
(***************************************************************************)
NumUploads == 2    \* POST /upload requests
NumInits == 2      \* server processes that run the start-up hook
MaxClock == 2      \* Date.now() ranges over 1..MaxClock

VARIABLES
  now,        \* the clock behind Date.now() and new Date()
  dataDir,    \* the files staged in data/: name -> file
  esIndex,    \* the 'documents' index: [exists, dims]
  esDocs,     \* _id -> _source of the documents written
  esVisible,  \* _id -> _source of the documents a search sees
  up,         \* POST /upload requests
  qry,        \* the POST /query request
  lst,        \* the GET /documents request
  del,        \* the DELETE /documents/:filename request
  ini,        \* initializeElasticsearch runs, one per server process
  ck          \* a call of chunkText: its arguments and its locals

vars == <<now, dataDir, esIndex, esDocs, esVisible, up, qry, lst, del, ini, ck>>

(***************************************************************************)
(* Strings                                                                 *)
(***************************************************************************)
Terminators == {".", "!", "?"}
Whitespace == {" ", "\n", "\t"}

Rep(c, n) == [i \in 1..n |-> c]

Min(a, b) == IF a < b THEN a ELSE b

\* k-th smallest element of a finite set of integers
Kth(S, k) == CHOOSE x \in S : Cardinality({y \in S : y < x}) = k - 1

IsBlank(s) == \A i \in 1..Len(s) : s[i] \in Whitespace

\* String.prototype.trim
Trim(s) ==
  LET n == Len(s)
      keep == {i \in 1..n : s[i] \notin Whitespace}
      first == CHOOSE i \in keep : \A j \in keep : i <= j
      fromEnd == {n - i : i \in keep}
      last == n - (CHOOSE d \in fromEnd : \A e \in fromEnd : d <= e)
  IN IF keep = {} THEN <<>> ELSE SubSeq(s, first, last)

\* text.split(/[.!?]+/).filter(s => s.trim().length > 0)
SplitSentences(text) ==
  LET n == Len(text)
      starts == {i \in 1..n : text[i] \notin Terminators
                              /\ (i = 1 \/ text[i-1] \in Terminators)}
      EndOf(i) == Kth({j \in i..n : j = n \/ text[j+1] \in Terminators}, 1)
      pieces == [k \in 1..Cardinality(starts) |->
                   SubSeq(text, Kth(starts, k), EndOf(Kth(starts, k)))]
  IN SelectSeq(pieces, LAMBDA s : ~IsBlank(s))

\* s.split(' ')
SplitWords(s) ==
  LET n == Len(s)
      sp == {i \in 1..n : s[i] = " "}
      m == Cardinality(sp)
      From(k) == IF k = 1 THEN 1 ELSE Kth(sp, k - 1) + 1
      To(k) == IF k = m + 1 THEN n ELSE Kth(sp, k) - 1
  IN [k \in 1..(m + 1) |-> SubSeq(s, From(k), To(k))]

\* words.slice(-k): slice(-0) is slice(0), the whole array
SliceLast(words, k) ==
  LET n == Len(words)
      first == IF k = 0 \/ k >= n THEN 1 ELSE n - k + 1
  IN SubSeq(words, first, n)

RECURSIVE JoinWords(_)
\* words.join(' ')
JoinWords(words) ==
  IF Len(words) = 0 THEN <<>>
  ELSE IF Len(words) = 1 THEN words[1]
  ELSE words[1] \o <<" ">> \o JoinWords(Tail(words))

(***************************************************************************)
(* chunkText                                                               *)
(***************************************************************************)
DefaultChunkSize == 500
DefaultOverlap == 50

\* an iteration that forgets the sentence when it closes a chunk
ChunkStepDropsSentence(st, sentence, chunkSize, overlap) ==
  IF Len(st.currentChunk \o sentence) > chunkSize /\ Len(st.currentChunk) > 0
  THEN [chunks |-> Append(st.chunks, Trim(st.currentChunk)),
        currentChunk |-> JoinWords(SliceLast(SplitWords(st.currentChunk), overlap))]
  ELSE [chunks |-> st.chunks,
        currentChunk |-> st.currentChunk \o sentence \o <<".", " ">>]

\* an iteration that closes the buffer even when it is empty
ChunkStepNoEmptyGuard(st, sentence, chunkSize, overlap) ==
  IF Len(st.currentChunk \o sentence) > chunkSize
  THEN [chunks |-> Append(st.chunks, Trim(st.currentChunk)),
        currentChunk |-> JoinWords(SliceLast(SplitWords(st.currentChunk), overlap))
                           \o <<" ">> \o sentence]
  ELSE [chunks |-> st.chunks,
        currentChunk |-> st.currentChunk \o sentence \o <<".", " ">>]

\* one iteration of the for-loop: st = [chunks, currentChunk]
ChunkStep(st, sentence, chunkSize, overlap) ==
  IF Len(st.currentChunk \o sentence) > chunkSize /\ Len(st.currentChunk) > 0
  THEN [chunks |-> Append(st.chunks, Trim(st.currentChunk)),
        currentChunk |-> JoinWords(SliceLast(SplitWords(st.currentChunk), overlap))
                           \o <<" ">> \o sentence]
  ELSE [chunks |-> st.chunks,
        currentChunk |-> st.currentChunk \o sentence \o <<".", " ">>]

RECURSIVE ChunkLoop(_, _, _, _)
ChunkLoop(st, sentences, chunkSize, overlap) ==
  IF sentences = <<>> THEN st
  ELSE ChunkLoop(ChunkStep(st, Head(sentences), chunkSize, overlap),
                 Tail(sentences), chunkSize, overlap)

\* a tail that forgets the remaining buffer
ChunkFinishNeverPushes(st) == st.chunks

\* a tail that pushes the remaining buffer even when it is blank
ChunkFinishAlwaysPushes(st) == Append(st.chunks, Trim(st.currentChunk))

\* after the loop: the remaining buffer is pushed when it is not blank
ChunkFinish(st) ==
  IF Len(Trim(st.currentChunk)) > 0
  THEN Append(st.chunks, Trim(st.currentChunk))
  ELSE st.chunks

chunkText(text, chunkSize, overlap) ==
  ChunkFinish(ChunkLoop([chunks |-> <<>>, currentChunk |-> <<>>],
                        SplitSentences(text), chunkSize, overlap))

(***************************************************************************)
(* A call of chunkText, one step per iteration of its for-loop.  ck holds  *)
(* the arguments, the locals (sentences, chunks, currentChunk), the number *)
(* of sentences consumed, and a log of the iterations that closed a chunk. *)
(***************************************************************************)
MaxTextLen == 6    \* texts of up to MaxTextLen characters
MaxChunkSize == 4  \* chunkSize ranges over 1..MaxChunkSize
MaxOverlap == 2    \* overlap ranges over 0..MaxOverlap

Alphabet == {"a", " ", "."}

\* texts with the other terminators and the other whitespace characters
OtherTexts ==
  { <<"a", "!", "a", "?", "a">>,
    <<"a", "?", "!", " ", "a", "\n">>,
    <<"\t", "a", ".", "\n", "a">>,
    <<"a", "\n", "a", "!", "a">>,
    <<"!", "?", ".">>,
    <<"\n", "\t">> }

ChunkTexts == UNION {[1..m -> Alphabet] : m \in 0..MaxTextLen} \cup OtherTexts

ChunkIdle ==
  [pc |-> "idle", text |-> <<>>, chunkSize |-> 0, overlap |-> 0,
   sentences |-> <<>>, k |-> 0, chunks |-> <<>>, currentChunk |-> <<>>,
   log |-> <<>>, result |-> <<>>]

\* the call, up to the head of the loop
ChunkCall ==
  /\ ck.pc = "idle"
  /\ \E text \in ChunkTexts, chunkSize \in 1..MaxChunkSize, overlap \in 0..MaxOverlap :
       ck' = [ChunkIdle EXCEPT !.pc = "loop", !.text = text,
                               !.chunkSize = chunkSize, !.overlap = overlap,
                               !.sentences = SplitSentences(text)]
  /\ UNCHANGED <<now, dataDir, esIndex, esDocs, esVisible, up, qry, lst, del, ini>>

\* one iteration of the loop
ChunkIterate ==
  /\ ck.pc = "loop"
  /\ ck.k < Len(ck.sentences)
  /\ LET sentence == ck.sentences[ck.k + 1]
         st == ChunkStep([chunks |-> ck.chunks, currentChunk |-> ck.currentChunk],
                         sentence, ck.chunkSize, ck.overlap)
         closed == Len(st.chunks) > Len(ck.chunks)
     IN ck' = [ck EXCEPT !.k = ck.k + 1, !.chunks = st.chunks,
                         !.currentChunk = st.currentChunk,
                         !.log = IF closed
                                 THEN Append(ck.log, [k |-> ck.k + 1,
                                                      buffer |-> ck.currentChunk,
                                                      sentence |-> sentence,
                                                      seeded |-> st.currentChunk])
                                 ELSE ck.log]
  /\ UNCHANGED <<now, dataDir, esIndex, esDocs, esVisible, up, qry, lst, del, ini>>

\* the loop is over: the last push and the return
ChunkReturn ==
  /\ ck.pc = "loop"
  /\ ck.k = Len(ck.sentences)
  /\ ck' = [ck EXCEPT !.pc = "returned",
                      !.result = ChunkFinish([chunks |-> ck.chunks,
                                              currentChunk |-> ck.currentChunk])]
  /\ UNCHANGED <<now, dataDir, esIndex, esDocs, esVisible, up, qry, lst, del, ini>>

(***************************************************************************)
(* Embedding vectors.  A JSON array of numbers is held as its length and   *)
(* its leading components, every further component being 0; scores are    *)
(* fixed-point numbers in hundredths.                                      *)
(***************************************************************************)
D == 384           \* dims of the dense_vector mapping
BadLen == 2        \* length of a malformed embedding payload
NumDirections == 3

NoVector == [len |-> 0, head |-> <<>>]

Component(v, k) == IF k <= Len(v.head) THEN v.head[k] ELSE 0

RECURSIVE SumTo(_, _)
SumTo(f, n) == IF n = 0 THEN 0 ELSE f[n] + SumTo(f, n - 1)

Dot(a, b) ==
  LET m == IF Len(a.head) > Len(b.head) THEN Len(a.head) ELSE Len(b.head)
  IN SumTo([k \in 1..m |-> Component(a, k) * Component(b, k)], m)

\* integer square root
Sqrt(n) == CHOOSE r \in 0..n : r * r <= n /\ (r + 1) * (r + 1) > n

\* cosineSimilarity(params.queryVector, 'embedding') + 1.0, in hundredths
ScriptScore(queryVector, embedding) ==
  (100 * Dot(queryVector, embedding))
     \div (Sqrt(Dot(queryVector, queryVector)) * Sqrt(Dot(embedding, embedding)))
  + 100

\* the vectors the sentence-transformers model answers with: a fixed
\* function of the input text, of n components
ModelVector(text, n) ==
  LET d == Len(text) % NumDirections
      full == IF d = 0 THEN <<1, 0>> ELSE IF d = 1 THEN <<0, 1>> ELSE <<3, 4>>
  IN [len |-> n, head |-> SubSeq(full, 1, Min(n, Len(full)))]

\* what the fetch of the embedding service can come back with
EmbedReplies(text) ==
  { [rejected |-> TRUE,  ok |-> FALSE, json |-> NoVector],                  \* network error
    [rejected |-> FALSE, ok |-> FALSE, json |-> NoVector],                  \* HTTP status >= 400
    [rejected |-> FALSE, ok |-> TRUE,  json |-> ModelVector(text, D)],
    [rejected |-> FALSE, ok |-> TRUE,  json |-> ModelVector(text, BadLen)] }

\* `response` before the fetch has come back
NoReply == [rejected |-> FALSE, ok |-> TRUE, json |-> NoVector]

\* getEmbeddings that answers a failed call with a vector of zeros
getEmbeddingsFallsBack(reply) ==
  IF reply.rejected \/ ~reply.ok
  THEN [ok |-> TRUE, error |-> "", value |-> [len |-> D, head |-> <<>>]]
  ELSE [ok |-> TRUE, error |-> "", value |-> reply.json]

\* getEmbeddings: [ok |-> FALSE, error] is a throw, [ok |-> TRUE, value] a return
getEmbeddings(reply) ==
  IF reply.rejected THEN [ok |-> FALSE, error |-> "fetch failed", value |-> NoVector]
  ELSE IF ~reply.ok THEN [ok |-> FALSE, error |-> "HTTP error", value |-> NoVector]
  ELSE [ok |-> TRUE, error |-> "", value |-> reply.json]

(***************************************************************************)
(* The Elasticsearch cluster behind esClient.  esIndex is the 'documents'  *)
(* index: whether it exists and the dims of its dense_vector field (0: the *)
(* field is not a dense_vector, the index was created without the mapping).*)
(* esDocs are the documents written, esVisible the documents a search sees:*)
(* those written before the last refresh.  avail = FALSE is a call that    *)
(* fails because the cluster cannot be reached.                            *)
(***************************************************************************)
NoIndex == [exists |-> FALSE, dims |-> 0]
AggSize == 100

\* esClient.indices.exists
EsExists(index, avail) ==
  IF ~avail THEN [ok |-> FALSE, error |-> "unavailable", body |-> FALSE]
  ELSE [ok |-> TRUE, error |-> "", body |-> index.exists]

\* esClient.indices.create with mappings.properties.embedding.dims
EsCreate(index, dims, avail) ==
  IF ~avail THEN [ok |-> FALSE, error |-> "unavailable", index |-> index]
  ELSE IF index.exists
  THEN [ok |-> FALSE, error |-> "resource_already_exists_exception", index |-> index]
  ELSE [ok |-> TRUE, error |-> "", index |-> [exists |-> TRUE, dims |-> dims]]

\* the id of a document written without one
AutoId(docs) ==
  [fn |-> <<0, "">>, auto |-> TRUE,
   n |-> Kth({k \in 0..Cardinality(DOMAIN docs) :
                [fn |-> <<0, "">>, auto |-> TRUE, n |-> k] \notin DOMAIN docs}, 1)]

\* esClient.index with op_type 'create': a write to an id that exists is a
\* version conflict
EsIndexCreateOnly(index, docs, req, avail) ==
  LET idx == IF index.exists THEN index ELSE [exists |-> TRUE, dims |-> 0]
      id == IF req.hasId THEN req.id ELSE AutoId(docs)
  IN IF ~avail
     THEN [ok |-> FALSE, error |-> "unavailable", index |-> index, docs |-> docs]
     ELSE IF idx.dims # 0 /\ req.body.embedding.len # idx.dims
     THEN [ok |-> FALSE, error |-> "mapper_parsing_exception",
           index |-> index, docs |-> docs]
     ELSE IF id \in DOMAIN docs
     THEN [ok |-> FALSE, error |-> "version_conflict_engine_exception",
           index |-> index, docs |-> docs]
     ELSE [ok |-> TRUE, error |-> "", index |-> idx,
           docs |-> [k \in DOMAIN docs \cup {id} |->
                       IF k = id THEN req.body ELSE docs[k]]]

\* esClient.index: creates a missing index without the mapping, checks the
\* vector against a dense_vector mapping, and writes the document under its id
EsIndex(index, docs, req, avail) ==
  LET idx == IF index.exists THEN index ELSE [exists |-> TRUE, dims |-> 0]
      id == IF req.hasId THEN req.id ELSE AutoId(docs)
  IN IF ~avail
     THEN [ok |-> FALSE, error |-> "unavailable", index |-> index, docs |-> docs]
     ELSE IF idx.dims # 0 /\ req.body.embedding.len # idx.dims
     THEN [ok |-> FALSE, error |-> "mapper_parsing_exception",
           index |-> index, docs |-> docs]
     ELSE [ok |-> TRUE, error |-> "", index |-> idx,
           docs |-> [k \in DOMAIN docs \cup {id} |->
                       IF k = id THEN req.body ELSE docs[k]]]

\* esClient.indices.refresh
EsRefresh(index, docs, visible, avail) ==
  IF ~avail THEN [ok |-> FALSE, error |-> "unavailable", visible |-> visible]
  ELSE IF ~index.exists
  THEN [ok |-> FALSE, error |-> "index_not_found_exception", visible |-> visible]
  ELSE [ok |-> TRUE, error |-> "", visible |-> docs]

\* the hit lists a script_score search of `size` may answer: the best-scored
\* visible documents in non-increasing score order, ties in any order
TopHits(visible, queryVector, size) ==
  LET ids == DOMAIN visible
      k == Min(size, Cardinality(ids))
      sc(id) == ScriptScore(queryVector, visible[id].embedding)
      orders == {h \in [1..k -> ids] :
                   /\ \A a, b \in 1..k : a < b => h[a] # h[b] /\ sc(h[a]) >= sc(h[b])
                   /\ \A a \in 1..k : \A o \in ids :
                        (\A b \in 1..k : h[b] # o) => sc(h[a]) >= sc(o)}
  IN {[a \in 1..k |-> [id |-> h[a], score |-> sc(h[a]), source |-> visible[h[a]]]] :
        h \in orders}

\* esClient.search with a script_score query: the set of possible answers
EsSearch(index, visible, req, avail) ==
  IF ~avail THEN {[ok |-> FALSE, error |-> "unavailable", hits |-> <<>>]}
  ELSE IF ~index.exists
  THEN {[ok |-> FALSE, error |-> "index_not_found_exception", hits |-> <<>>]}
  ELSE IF DOMAIN visible # {} /\ (index.dims = 0 \/ req.queryVector.len # index.dims)
  THEN {[ok |-> FALSE, error |-> "script_exception", hits |-> <<>>]}
  ELSE {[ok |-> TRUE, error |-> "", hits |-> h] :
          h \in TopHits(visible, req.queryVector, req.size)}

\* esClient.search with the terms aggregation over filename.keyword
EsTermsAgg(index, visible, size, avail) ==
  LET keys == {visible[id].filename : id \in DOMAIN visible}
      cnt(f) == Cardinality({id \in DOMAIN visible : visible[id].filename = f})
      tops == {S \in SUBSET keys :
                 /\ Cardinality(S) = Min(size, Cardinality(keys))
                 /\ \A f \in S : \A g \in keys \ S : cnt(f) >= cnt(g)}
  IN IF ~avail THEN {[ok |-> FALSE, error |-> "unavailable", buckets |-> {}]}
     ELSE IF ~index.exists
     THEN {[ok |-> FALSE, error |-> "index_not_found_exception", buckets |-> {}]}
     ELSE {[ok |-> TRUE, error |-> "",
            buckets |-> {[key |-> f, doc_count |-> cnt(f)] : f \in S}] : S \in tops}

\* esClient.deleteByQuery with a match_all query: deletes every document its
\* search finds
EsDeleteByQueryMatchAll(index, docs, visible, filename, avail) ==
  IF ~avail THEN [ok |-> FALSE, error |-> "unavailable", docs |-> docs]
  ELSE IF ~index.exists
  THEN [ok |-> FALSE, error |-> "index_not_found_exception", docs |-> docs]
  ELSE [ok |-> TRUE, error |-> "",
        docs |-> [k \in DOMAIN docs \ DOMAIN visible |-> docs[k]]]

\* esClient.deleteByQuery with a term query on filename.keyword: deletes the
\* documents its search finds, and does not refresh
EsDeleteByQuery(index, docs, visible, filename, avail) ==
  LET found == {id \in DOMAIN visible : visible[id].filename = filename}
  IN IF ~avail THEN [ok |-> FALSE, error |-> "unavailable", docs |-> docs]
     ELSE IF ~index.exists
     THEN [ok |-> FALSE, error |-> "index_not_found_exception", docs |-> docs]
     ELSE [ok |-> TRUE, error |-> "",
           docs |-> [k \in DOMAIN docs \ found |-> docs[k]]]

(***************************************************************************)
(* Inputs                                                                  *)
(***************************************************************************)
EmptyText == <<>>
ShortText == <<"c", "c", ".">>
LongText ==
  Rep("a", 250) \o <<".", " ">> \o Rep("b", 250) \o <<".", " ">>
    \o Rep("c", 250) \o <<".", " ">> \o Rep("d", 250) \o <<".">>
Texts == <<EmptyText, ShortText, LongText>>
Questions == <<EmptyText, <<"q">>>>

SnippetLen == 200
\* chunk.content.substring(0, 200) + '...'
Snippet(content) ==
  SubSeq(content, 1, Min(SnippetLen, Len(content))) \o <<".", ".", ".">>

RECURSIVE Flatten(_)
Flatten(ss) == IF ss = <<>> THEN <<>> ELSE Head(ss) \o Flatten(Tail(ss))

\* every string a state can hold: the inputs, their chunks, the snippets
AllChunks ==
  Flatten([k \in 1..Len(Texts) |-> chunkText(Texts[k], DefaultChunkSize, DefaultOverlap)])
StringTable ==
  Texts \o Questions \o AllChunks \o [k \in 1..Len(AllChunks) |-> Snippet(AllChunks[k])]

Str(h) == StringTable[h]
Intern(s) == CHOOSE h \in 1..Len(StringTable) : StringTable[h] = s
\* a string field that has not been assigned holds the empty string
NoString == Intern(EmptyText)

\* req.file as multer sees it: nothing, a file of another mimetype, a PDF
\* that pdf-parse rejects, or a PDF with text
UploadInputs ==
  {[present |-> FALSE, pdf |-> FALSE, parses |-> FALSE, text |-> NoString],
   [present |-> TRUE,  pdf |-> FALSE, parses |-> FALSE, text |-> NoString],
   [present |-> TRUE,  pdf |-> TRUE,  parses |-> FALSE, text |-> NoString]}
  \cup {[present |-> TRUE, pdf |-> TRUE, parses |-> TRUE, text |-> Intern(Texts[k])] :
          k \in 1..Len(Texts)}

Ev(op, n) == [op |-> op, n |-> n]

\* app.listen has called back: a server process accepts requests from the
\* moment its callback starts initializeElasticsearch
Listening == \E p \in DOMAIN ini : ini[p].pc # "idle"

(***************************************************************************)
(* POST /upload: multer, then the handler with parsePdfFile, chunkText and *)
(* indexDocument inlined.                                                  *)
(***************************************************************************)
NoResp == [status |-> 0, message |-> "", error |-> "", chunks |-> 0, textLength |-> 0]
NoFilename == <<0, "">>
NoRequest ==
  [hasId |-> FALSE, id |-> [fn |-> NoFilename, auto |-> TRUE, n |-> 0],
   body |-> [content |-> NoString, embedding |-> NoVector, filename |-> NoFilename,
             chunk_id |-> 0, timestamp |-> 0]]

UploadIdle ==
  [pc |-> "idle", file |-> CHOOSE f \in UploadInputs : ~f.present,
   filename |-> NoFilename, pdfText |-> NoString, chunks |-> <<>>, i |-> 0,
   response |-> NoReply, request |-> NoRequest, trace |-> <<>>, resp |-> NoResp]

\* multer's filename callback: `${Date.now()}.${fileExtension}`
StoredFilename(ms, ext) == <<ms, ext>>

\* a catch block that answers as if the upload had succeeded
UploadCatchReportsSuccess(r, error) ==
  [r EXCEPT !.pc = "done",
            !.resp = [NoResp EXCEPT !.status = 200,
                                    !.message = "PDF processed successfully",
                                    !.chunks = Len(r.chunks)]]

\* a catch block that runs the failed chunk once more before it gives up
UploadCatchRetriesOnce(r, error) ==
  IF r.trace # <<>>
     /\ Cardinality({k \in 1..Len(r.trace) : r.trace[k] = [op |-> "embed_call", n |-> r.i]}) = 1
  THEN [r EXCEPT !.pc = "embedding",
                 !.trace = Append(r.trace, [op |-> "embed_call", n |-> r.i])]
  ELSE [r EXCEPT !.pc = "done",
                 !.resp = [NoResp EXCEPT !.status = 500,
                                         !.message = "Failed to process PDF",
                                         !.error = error]]

\* the catch block of the upload handler
UploadCatch(r, error) ==
  [r EXCEPT !.pc = "done",
            !.resp = [NoResp EXCEPT !.status = 500,
                                    !.message = "Failed to process PDF",
                                    !.error = error]]

\* res.json after indexDocument and unlinkSync
UploadSuccess(r) ==
  [r EXCEPT !.pc = "done",
            !.resp = [status |-> 200, message |-> "PDF processed successfully",
                      error |-> "", chunks |-> Len(r.chunks),
                      textLength |-> Len(Str(r.pdfText))]]

\* a document that takes its text from the other end of the chunk list
IndexRequestReversed(chunks, filename, i, embedding, date) ==
  [hasId |-> TRUE,
   id |-> [fn |-> filename, auto |-> FALSE, n |-> i],
   body |-> [content |-> chunks[Len(chunks) - i], embedding |-> embedding,
             filename |-> filename, chunk_id |-> i, timestamp |-> date]]

\* a document written without an id of its own
IndexRequestNoId(chunks, filename, i, embedding, date) ==
  [hasId |-> FALSE,
   id |-> [fn |-> filename, auto |-> FALSE, n |-> i],
   body |-> [content |-> chunks[i + 1], embedding |-> embedding,
             filename |-> filename, chunk_id |-> i, timestamp |-> date]]

\* the document indexDocument writes for chunks[i]
IndexRequest(chunks, filename, i, embedding, date) ==
  [hasId |-> TRUE,
   id |-> [fn |-> filename, auto |-> FALSE, n |-> i],
   body |-> [content |-> chunks[i + 1], embedding |-> embedding,
             filename |-> filename, chunk_id |-> i, timestamp |-> date]]

\* the head of indexDocument's for-loop: the next await of the request
\* whose loop counter is i
LoopHead(r, i) ==
  IF i < Len(r.chunks)
  THEN [r EXCEPT !.pc = "embedding", !.i = i,
                 !.trace = Append(r.trace, Ev("embed_call", i))]
  ELSE [r EXCEPT !.pc = "refreshing", !.i = i,
                 !.trace = Append(r.trace, Ev("refresh_call", i))]

\* multer: fileFilter, filename, and the file written to data/; requests are
\* numbered in the order in which they arrive
UploadReceive(u) ==
  /\ up[u].pc = "idle"
  /\ \A v \in 1..(u - 1) : up[v].pc # "idle"
  /\ Listening
  /\ \E f \in UploadInputs :
       IF ~f.present
       THEN /\ up' = [up EXCEPT ![u] = [@ EXCEPT !.pc = "done", !.file = f,
                        !.resp = [NoResp EXCEPT !.status = 400,
                                                !.error = "No PDF file uploaded"]]]
            /\ UNCHANGED dataDir
       ELSE IF ~f.pdf
       THEN /\ up' = [up EXCEPT ![u] = [@ EXCEPT !.pc = "done", !.file = f,
                        !.resp = [NoResp EXCEPT !.status = 500,
                                                !.error = "Internal server error"]]]
            /\ UNCHANGED dataDir
       ELSE /\ up' = [up EXCEPT ![u] = [@ EXCEPT !.pc = "staged", !.file = f,
                        !.filename = StoredFilename(now, "pdf")]]
            /\ dataDir' = [n \in DOMAIN dataDir \cup {StoredFilename(now, "pdf")} |->
                             IF n = StoredFilename(now, "pdf") THEN f ELSE dataDir[n]]
  /\ UNCHANGED <<now, esIndex, esDocs, esVisible, qry, lst, del, ini, ck>>

\* chunkText(pdfText) with its default chunkSize and overlap
Chunks(pdfText) ==
  LET cs == chunkText(Str(pdfText), DefaultChunkSize, DefaultOverlap)
  IN [k \in 1..Len(cs) |-> Intern(cs[k])]

\* the handler up to its first await on the embedder or the index:
\* parsePdfFile, chunkText, the first iteration of indexDocument
UploadParse(u) ==
  /\ up[u].pc = "staged"
  /\ LET r == up[u] IN
       IF r.filename \notin DOMAIN dataDir
       THEN up' = [up EXCEPT ![u] = UploadCatch(r, "ENOENT")]
       ELSE IF ~dataDir[r.filename].parses
       THEN up' = [up EXCEPT ![u] = UploadCatch(r, "pdf-parse")]
       ELSE up' = [up EXCEPT ![u] =
                     LoopHead([r EXCEPT !.pdfText = dataDir[r.filename].text,
                                        !.chunks = Chunks(dataDir[r.filename].text)],
                              0)]
  /\ UNCHANGED <<now, dataDir, esIndex, esDocs, esVisible, qry, lst, del, ini, ck>>

\* getEmbeddings(chunks[i]) comes back; esClient.index is called
UploadEmbedded(u) ==
  /\ up[u].pc = "embedding"
  /\ \E reply \in EmbedReplies(Str(up[u].chunks[up[u].i + 1])) :
       LET r == [up[u] EXCEPT !.response = reply]
           e == getEmbeddings(reply)
       IN IF ~e.ok
          THEN up' = [up EXCEPT ![u] =
                 UploadCatch([r EXCEPT !.trace = Append(r.trace, Ev("embed_err", r.i))],
                             e.error)]
          ELSE up' = [up EXCEPT ![u] =
                 [r EXCEPT !.pc = "indexing",
                           !.request = IndexRequest(r.chunks, r.filename, r.i, e.value, now),
                           !.trace = r.trace \o <<Ev("embed_ok", r.i),
                                                  Ev("index_call", r.i)>>]]
  /\ UNCHANGED <<now, dataDir, esIndex, esDocs, esVisible, qry, lst, del, ini, ck>>

\* esClient.index comes back; the loop goes on
UploadIndexed(u) ==
  /\ up[u].pc = "indexing"
  /\ \E avail \in BOOLEAN :
       LET r == up[u]
           res == EsIndex(esIndex, esDocs, r.request, avail)
       IN /\ esIndex' = res.index
          /\ esDocs' = res.docs
          /\ IF ~res.ok
             THEN up' = [up EXCEPT ![u] =
                    UploadCatch([r EXCEPT !.trace = Append(r.trace, Ev("index_err", r.i))],
                                res.error)]
             ELSE up' = [up EXCEPT ![u] =
                    LoopHead([r EXCEPT !.trace = Append(r.trace, Ev("index_ok", r.i))],
                             r.i + 1)]
  /\ UNCHANGED <<now, dataDir, esVisible, qry, lst, del, ini, ck>>

\* esClient.indices.refresh comes back; unlinkSync and the response
UploadRefreshed(u) ==
  /\ up[u].pc = "refreshing"
  /\ \E avail \in BOOLEAN :
       LET r == up[u]
           res == EsRefresh(esIndex, esDocs, esVisible, avail)
       IN /\ esVisible' = res.visible
          /\ IF ~res.ok
             THEN /\ up' = [up EXCEPT ![u] =
                       UploadCatch([r EXCEPT !.trace = Append(r.trace, Ev("refresh_err", r.i))],
                                   res.error)]
                  /\ UNCHANGED dataDir
             ELSE IF r.filename \notin DOMAIN dataDir
             THEN /\ up' = [up EXCEPT ![u] =
                       UploadCatch([r EXCEPT !.trace = Append(r.trace, Ev("refresh_ok", r.i))],
                                   "ENOENT")]
                  /\ UNCHANGED dataDir
             ELSE /\ up' = [up EXCEPT ![u] =
                       UploadSuccess([r EXCEPT !.trace = Append(r.trace, Ev("refresh_ok", r.i))])]
                  /\ dataDir' = [n \in DOMAIN dataDir \ {r.filename} |-> dataDir[n]]
  /\ UNCHANGED <<now, esIndex, esDocs, qry, lst, del, ini, ck>>

(***************************************************************************)
(* The environment: the clock, and the cluster's periodic refresh          *)
(***************************************************************************)
Tick ==
  /\ now < MaxClock
  /\ now' = now + 1
  /\ UNCHANGED <<dataDir, esIndex, esDocs, esVisible, up, qry, lst, del, ini, ck>>

PeriodicRefresh ==
  /\ esIndex.exists
  /\ esVisible # esDocs
  /\ esVisible' = esDocs
  /\ UNCHANGED <<now, dataDir, esIndex, esDocs, up, qry, lst, del, ini, ck>>

(***************************************************************************)
(* initializeElasticsearch, called from the app.listen callback            *)
(***************************************************************************)
InitIdle == [pc |-> "idle", sawExists |-> FALSE, created |-> FALSE,
             result |-> "none", logged |-> "", trace |-> <<>>]

\* a catch block that rethrows, as the other helpers' catch blocks do
InitCatchRethrows(r, error) ==
  [r EXCEPT !.pc = "done", !.result = "threw", !.logged = error]

\* the catch block: console.error, and the function returns normally
InitCatch(r, error) ==
  [r EXCEPT !.pc = "done", !.result = "returned", !.logged = error]

\* a start-up that calls create whatever exists answered
InitBranchAlwaysCreates(r, body) ==
  [r EXCEPT !.pc = "creating", !.sawExists = body,
            !.trace = r.trace \o <<Ev("exists_ok", 0), Ev("create_call", D)>>]

\* after `await esClient.indices.exists`: create the index or log
InitBranch(r, body) ==
  IF ~body
  THEN [r EXCEPT !.pc = "creating", !.sawExists = FALSE,
                 !.trace = r.trace \o <<Ev("exists_ok", 0), Ev("create_call", D)>>]
  ELSE [r EXCEPT !.pc = "done", !.sawExists = TRUE, !.result = "returned",
                 !.logged = "Elasticsearch index already exists",
                 !.trace = Append(r.trace, Ev("exists_ok", 1))]

InitStart(p) ==
  /\ ini[p].pc \in {"idle", "done"}
  /\ ini' = [ini EXCEPT ![p] = [InitIdle EXCEPT !.pc = "checking",
                                  !.trace = <<Ev("exists_call", 0)>>]]
  /\ UNCHANGED <<now, dataDir, esIndex, esDocs, esVisible, up, qry, lst, del, ck>>

InitChecked(p) ==
  /\ ini[p].pc = "checking"
  /\ \E avail \in BOOLEAN :
       LET res == EsExists(esIndex, avail)
       IN ini' = [ini EXCEPT ![p] =
                    IF ~res.ok
                    THEN InitCatch([@ EXCEPT !.trace = Append(@, Ev("exists_err", 0))],
                                   res.error)
                    ELSE InitBranch(@, res.body)]
  /\ UNCHANGED <<now, dataDir, esIndex, esDocs, esVisible, up, qry, lst, del, ck>>

InitCreated(p) ==
  /\ ini[p].pc = "creating"
  /\ \E avail \in BOOLEAN :
       LET res == EsCreate(esIndex, D, avail)
       IN /\ esIndex' = res.index
          /\ ini' = [ini EXCEPT ![p] =
                       IF ~res.ok
                       THEN InitCatch([@ EXCEPT !.trace = Append(@, Ev("create_err", 0))],
                                      res.error)
                       ELSE [@ EXCEPT !.pc = "done", !.result = "returned",
                                      !.created = TRUE,
                                      !.logged = "Created Elasticsearch index: documents",
                                      !.trace = Append(@, Ev("create_ok", 0))]]
  /\ UNCHANGED <<now, dataDir, esDocs, esVisible, up, qry, lst, del, ck>>

(***************************************************************************)
(* POST /query with searchSimilarChunks inlined                            *)
(***************************************************************************)
QueryTopK == 3

NoQueryResp == [status |-> 0, answer |-> "", sources |-> <<>>, error |-> ""]
QueryIdle ==
  [pc |-> "idle", question |-> NoString, response |-> NoReply,
   request |-> [queryVector |-> NoVector, size |-> 0],
   relevantChunks |-> <<>>, afterDelete |-> FALSE, trace |-> <<>>,
   resp |-> NoQueryResp]

\* the catch block of the query handler
QueryCatch(r, error) ==
  [r EXCEPT !.pc = "done",
            !.resp = [NoQueryResp EXCEPT !.status = 500, !.error = error]]

\* a search body that asks for one hit more than topK
SearchRequestOneMore(queryEmbedding, topK) ==
  [queryVector |-> queryEmbedding, size |-> topK + 1]

\* the body of the esClient.search call
SearchRequest(queryEmbedding, topK) ==
  [queryVector |-> queryEmbedding, size |-> topK]

\* searchResponse.body.hits.hits.map(...)
MapHits(hits) ==
  [k \in 1..Len(hits) |-> [content |-> hits[k].source.content,
                           filename |-> hits[k].source.filename,
                           score |-> hits[k].score]]

\* searchSimilarChunks that treats an empty hit list as a failure
SearchOutcomeThrowsOnEmpty(res) ==
  IF ~res.ok THEN [ok |-> FALSE, error |-> res.error, value |-> <<>>]
  ELSE IF Len(res.hits) = 0 THEN [ok |-> FALSE, error |-> "no results", value |-> <<>>]
  ELSE [ok |-> TRUE, error |-> "", value |-> MapHits(res.hits)]

\* searchSimilarChunks after `await esClient.search`: the mapped hits, or
\* the error rethrown
SearchOutcome(res) ==
  IF ~res.ok THEN [ok |-> FALSE, error |-> res.error, value |-> <<>>]
  ELSE [ok |-> TRUE, error |-> "", value |-> MapHits(res.hits)]

\* the handler without its early return on zero results
QueryBranchAlwaysGenerates(r, relevantChunks) ==
  [r EXCEPT !.pc = "generating", !.relevantChunks = relevantChunks,
            !.trace = Append(r.trace, Ev("generate_call", Len(relevantChunks)))]

\* the handler after searchSimilarChunks returned relevantChunks
QueryBranch(r, relevantChunks) ==
  IF Len(relevantChunks) = 0
  THEN [r EXCEPT !.pc = "done", !.relevantChunks = relevantChunks,
                 !.resp = [status |-> 200, answer |-> "I couldn't find any relevant information in the uploaded documents.",
                           sources |-> <<>>, error |-> ""]]
  ELSE [r EXCEPT !.pc = "generating", !.relevantChunks = relevantChunks,
                 !.trace = Append(r.trace, Ev("generate_call", Len(relevantChunks)))]

\* the set of upload requests that have been answered
Answered == {u \in 1..NumUploads : up[u].pc = "done"}

QueryStart ==
  /\ qry.pc = "idle"
  /\ Listening
  /\ \E question \in {Intern(Questions[k]) : k \in 1..Len(Questions)} :
       qry' = IF Len(Str(question)) = 0
              THEN [qry EXCEPT !.pc = "done",
                      !.resp = [NoQueryResp EXCEPT !.status = 400,
                                                   !.error = "Question is required"]]
              ELSE [qry EXCEPT !.pc = "embedding", !.question = question,
                      !.afterDelete = (del.pc = "done" /\ del.resp.status = 200),
                      !.trace = <<Ev("embed_call", 0)>>]
  /\ UNCHANGED <<now, dataDir, esIndex, esDocs, esVisible, up, lst, del, ini, ck>>

QueryEmbedded ==
  /\ qry.pc = "embedding"
  /\ \E reply \in EmbedReplies(Str(qry.question)) :
       LET e == getEmbeddings(reply)
       IN qry' = IF ~e.ok
                 THEN QueryCatch([qry EXCEPT !.response = reply,
                                             !.trace = Append(@, Ev("embed_err", 0))],
                                 e.error)
                 ELSE [qry EXCEPT !.pc = "searching", !.response = reply,
                         !.request = SearchRequest(e.value, QueryTopK),
                         !.trace = @ \o <<Ev("embed_ok", 0), Ev("search_call", QueryTopK)>>]
  /\ UNCHANGED <<now, dataDir, esIndex, esDocs, esVisible, up, lst, del, ini, ck>>

QuerySearched ==
  /\ qry.pc = "searching"
  /\ \E avail \in BOOLEAN :
       \E res \in EsSearch(esIndex, esVisible, qry.request, avail) :
         LET out == SearchOutcome(res)
             seen == Cardinality(DOMAIN esVisible)
         IN qry' = IF ~out.ok
                   THEN QueryCatch([qry EXCEPT !.trace = Append(@, Ev("search_err", seen))],
                                   out.error)
                   ELSE QueryBranch([qry EXCEPT !.trace = Append(@, Ev("search_ok", seen))],
                                    out.value)
  /\ UNCHANGED <<now, dataDir, esIndex, esDocs, esVisible, up, lst, del, ini, ck>>

\* generateGeminiResponse comes back
QueryGenerated ==
  /\ qry.pc = "generating"
  /\ \E ok \in BOOLEAN :
       qry' = IF ~ok
              THEN QueryCatch([qry EXCEPT !.trace = Append(@, Ev("generate_err", 0))],
                              "generateContent")
              ELSE [qry EXCEPT !.pc = "done",
                      !.trace = Append(@, Ev("generate_ok", 0)),
                      !.resp = [status |-> 200, answer |-> "generated", error |-> "",
                                sources |-> [k \in 1..Len(qry.relevantChunks) |->
                                   [filename |-> qry.relevantChunks[k].filename,
                                    snippet |-> Intern(Snippet(Str(qry.relevantChunks[k].content))),
                                    score |-> qry.relevantChunks[k].score]]]]
  /\ UNCHANGED <<now, dataDir, esIndex, esDocs, esVisible, up, lst, del, ini, ck>>

(***************************************************************************)
(* DELETE /documents/:filename and GET /documents                          *)
(***************************************************************************)
Filenames == {StoredFilename(ms, "pdf") : ms \in 1..MaxClock}

NoPlainResp == [status |-> 0, message |-> "", documents |-> {}, error |-> ""]
DeleteIdle == [pc |-> "idle", filename |-> NoFilename, answered |-> {},
               logged |-> "", resp |-> NoPlainResp]
ListIdle == [pc |-> "idle", afterDelete |-> FALSE, resp |-> NoPlainResp]

DeleteStart ==
  /\ del.pc = "idle"
  /\ Listening
  /\ \E f \in Filenames :
       del' = [del EXCEPT !.pc = "deleting", !.filename = f, !.answered = Answered]
  /\ UNCHANGED <<now, dataDir, esIndex, esDocs, esVisible, up, qry, lst, ini, ck>>

DeleteDone ==
  /\ del.pc = "deleting"
  /\ \E avail \in BOOLEAN :
       LET res == EsDeleteByQuery(esIndex, esDocs, esVisible, del.filename, avail)
       IN /\ esDocs' = res.docs
          /\ del' = [del EXCEPT !.pc = "done", !.logged = res.error,
                       !.resp = IF res.ok
                                THEN [NoPlainResp EXCEPT !.status = 200,
                                        !.message = "deleted successfully"]
                                ELSE [NoPlainResp EXCEPT !.status = 500,
                                        !.error = "Failed to delete document"]]
  /\ UNCHANGED <<now, dataDir, esIndex, esVisible, up, qry, lst, ini, ck>>

\* buckets.map(bucket => ({filename: bucket.key, chunks: bucket.doc_count}))
MapBuckets(buckets) ==
  {[filename |-> b.key, chunks |-> b.doc_count] : b \in buckets}

ListStart ==
  /\ lst.pc = "idle"
  /\ Listening
  /\ lst' = [lst EXCEPT !.pc = "listing",
               !.afterDelete = (del.pc = "done" /\ del.resp.status = 200)]
  /\ UNCHANGED <<now, dataDir, esIndex, esDocs, esVisible, up, qry, del, ini, ck>>

ListDone ==
  /\ lst.pc = "listing"
  /\ \E avail \in BOOLEAN :
       \E res \in EsTermsAgg(esIndex, esVisible, AggSize, avail) :
         lst' = [lst EXCEPT !.pc = "done",
                   !.resp = IF res.ok
                            THEN [NoPlainResp EXCEPT !.status = 200,
                                    !.documents = MapBuckets(res.buckets)]
                            ELSE [NoPlainResp EXCEPT !.status = 500,
                                    !.error = "Failed to fetch documents"]]
  /\ UNCHANGED <<now, dataDir, esIndex, esDocs, esVisible, up, qry, del, ini, ck>>

(***************************************************************************)
(* Specifications                                                          *)
(***************************************************************************)
Init ==
  /\ now = 1
  /\ dataDir = <<>>
  /\ esIndex = NoIndex
  /\ esDocs = <<>>
  /\ esVisible = <<>>
  /\ up = [u \in 1..NumUploads |-> UploadIdle]
  /\ qry = QueryIdle
  /\ lst = ListIdle
  /\ del = DeleteIdle
  /\ ini = [p \in 1..NumInits |-> InitIdle]
  /\ ck = ChunkIdle

Uploads(U) ==
  \E u \in U :
    \/ UploadReceive(u)
    \/ UploadParse(u)
    \/ UploadEmbedded(u)
    \/ UploadIndexed(u)
    \/ UploadRefreshed(u)

Inits(P) ==
  \E p \in P : InitStart(p) \/ InitChecked(p) \/ InitCreated(p)

Query == QueryStart \/ QueryEmbedded \/ QuerySearched \/ QueryGenerated

Delete == DeleteStart \/ DeleteDone

List == ListStart \/ ListDone

\* a server that found, when it started, the index an earlier run created
Serving ==
  /\ now = 1
  /\ dataDir = <<>>
  /\ esIndex = [exists |-> TRUE, dims |-> D]
  /\ esDocs = <<>>
  /\ esVisible = <<>>
  /\ up = [u \in 1..NumUploads |-> UploadIdle]
  /\ qry = QueryIdle
  /\ lst = ListIdle
  /\ del = DeleteIdle
  /\ ini = [p \in 1..NumInits |->
              InitBranch([InitIdle EXCEPT !.trace = <<Ev("exists_call", 0)>>], TRUE)]
  /\ ck = ChunkIdle

\* start-up: server processes initialize the index of a fresh cluster while
\* a document is uploaded
Next ==
  \/ Inits(1..NumInits)
  \/ Uploads({1})
  \/ PeriodicRefresh

Spec == Init /\ [][Next]_vars

\* ingestion: concurrent uploads
IngestNext ==
  \/ Uploads(1..NumUploads)
  \/ Tick
  \/ PeriodicRefresh

SpecIngest == Serving /\ [][IngestNext]_vars

\* retrieval: a query while a document is being ingested
SearchNext ==
  \/ Uploads({1})
  \/ Query
  \/ PeriodicRefresh

SpecSearch == Serving /\ [][SearchNext]_vars

\* deletion: a document ingested, deleted, listed and searched
DeleteNext ==
  \/ Uploads({1})
  \/ Delete
  \/ List
  \/ Query
  \/ PeriodicRefresh

SpecDelete == Serving /\ [][DeleteNext]_vars

\* chunking: chunkText called on every text, chunkSize and overlap of the
\* bounds
ChunkNext ==
  \/ ChunkCall
  \/ ChunkIterate
  \/ ChunkReturn

SpecChunk == Init /\ [][ChunkNext]_vars

(***************************************************************************)
(* Properties                                                              *)
(***************************************************************************)
HasEv(trace, op) == \E k \in 1..Len(trace) : trace[k].op = op
HasEvN(trace, op, n) == \E k \in 1..Len(trace) : trace[k] = Ev(op, n)

CannedAnswer ==
  [status |-> 200, answer |-> "I couldn't find any relevant information in the uploaded documents.",
   sources |-> <<>>, error |-> ""]

\* C1: a query whose similarity search returned zero results is answered, in
\* the step in which the search returns, with status 200, the canned answer
\* and no sources, and generateGeminiResponse is never called for it.
C1_ZeroResultsCanned ==
  (HasEv(qry.trace, "search_ok") /\ Len(qry.relevantChunks) = 0)
    => /\ qry.pc = "done"
       /\ qry.resp = CannedAnswer
       /\ ~HasEv(qry.trace, "generate_call")

C1_Witness ==
  /\ HasEv(qry.trace, "search_ok")
  /\ Len(qry.relevantChunks) = 0
  /\ qry.pc = "done"
  /\ DOMAIN esDocs # {}

\* C9: searchSimilarChunks returns at most topK results, in non-increasing
\* score order.
C9_AtMostTopKSorted ==
  /\ Len(qry.relevantChunks) <= QueryTopK
  /\ \A a, b \in 1..Len(qry.relevantChunks) :
       a < b => qry.relevantChunks[a].score >= qry.relevantChunks[b].score

C9_Witness ==
  /\ HasEvN(qry.trace, "search_ok", QueryTopK + 1)
  /\ Len(qry.relevantChunks) = QueryTopK
  /\ qry.relevantChunks[1].score > qry.relevantChunks[QueryTopK].score

\* C10: a search that the store answers while the index has no entry to
\* search returns the empty sequence; the only failure a search of an empty
\* index can end in is the store being unreachable.
C10_EmptyIndexEmptyResult ==
  /\ HasEvN(qry.trace, "search_ok", 0)
       => Len(qry.relevantChunks) = 0 /\ qry.resp.status = 200
  /\ HasEvN(qry.trace, "search_err", 0) => qry.resp.error = "unavailable"

C10_Witness ==
  /\ HasEvN(qry.trace, "search_ok", 0)
  /\ qry.relevantChunks = <<>>
  /\ qry.resp.status = 200
  /\ esDocs = <<>>

ChunkId(f, n) == [fn |-> f, auto |-> FALSE, n |-> n]
Last(trace) == trace[Len(trace)]

\* C2: when the embed or the insert of chunk k fails, nothing follows in
\* that ingestion (no call for a later chunk), the handler answers 500 with
\* the error of the failed call and never with the success message, and the
\* entries of chunks 0..k-1 are still in the index.
C2_FirstErrorFailsIngestion ==
  \A u \in 1..NumUploads : \A j \in 1..Len(up[u].trace) :
    LET r == up[u]
        k == r.trace[j].n
    IN r.trace[j].op \in {"embed_err", "index_err"}
       => /\ j = Len(r.trace)
          /\ \A m \in 1..Len(r.trace) : r.trace[m].n <= k
          /\ r.pc = "done"
          /\ r.resp.status = 500
          /\ r.resp.message = "Failed to process PDF"
          /\ r.resp.error \in (IF r.trace[j].op = "embed_err"
                               THEN {"fetch failed", "HTTP error"}
                               ELSE {"unavailable", "mapper_parsing_exception"})
          /\ \A m \in 0..(k - 1) :
               /\ ChunkId(r.filename, m) \in DOMAIN esDocs
               /\ esDocs[ChunkId(r.filename, m)].chunk_id = m

C2_Witness ==
  \E u \in 1..NumUploads :
    /\ Len(up[u].trace) > 0
    /\ Last(up[u].trace) = Ev("index_err", 2)
    /\ up[u].resp.status = 500
    /\ \A m \in 0..1 : ChunkId(up[u].filename, m) \in DOMAIN esDocs

\* the events an ingestion of L chunks may log at position j of its trace
TraceOps(j, L) ==
  IF j > 4 * L THEN {"refresh_call", "refresh_ok", "refresh_err"}
  ELSE IF (j - 1) % 4 = 0 THEN {"embed_call"}
  ELSE IF (j - 1) % 4 = 1 THEN {"embed_ok", "embed_err"}
  ELSE IF (j - 1) % 4 = 2 THEN {"index_call"}
  ELSE {"index_ok", "index_err"}

\* C3: an ingestion embeds and writes its chunks one after the other in
\* sequence order (embed i returns before write i is called, write i returns
\* before embed i+1 is called), the write for chunk i asks for id
\* <filename>_chunk_<i> with chunk_id i and the text of the i-th chunk, and
\* every entry of the index has the chunk_id and the text of the chunk of
\* that ordinal of an upload stored under its filename.
C3_ChunksInSequence ==
  /\ \A u \in 1..NumUploads :
       LET r == up[u] IN
       /\ \A j \in 1..Len(r.trace) :
            /\ r.trace[j].op \in TraceOps(j, Len(r.chunks))
            /\ j <= 4 * Len(r.chunks) => r.trace[j].n = (j - 1) \div 4
       /\ r.pc = "indexing"
            => /\ Last(r.trace) = Ev("index_call", r.i)
               /\ r.request.hasId
               /\ r.request.id = ChunkId(r.filename, r.i)
               /\ r.request.body.chunk_id = r.i
               /\ r.request.body.filename = r.filename
               /\ r.request.body.content = r.chunks[r.i + 1]
  /\ \A id \in DOMAIN esDocs :
       /\ esDocs[id].chunk_id = id.n
       /\ esDocs[id].filename = id.fn
       /\ \E u \in 1..NumUploads :
            /\ up[u].filename = id.fn
            /\ id.n < Len(up[u].chunks)
            /\ esDocs[id].content = up[u].chunks[id.n + 1]

C3_Witness ==
  \E u, v \in 1..NumUploads :
    /\ u # v
    /\ up[v].pc \in {"embedding", "indexing"}
    /\ up[u].pc = "indexing"
    /\ up[u].i = 3
    /\ up[v].i = 1

EntriesOf(docs, f) == {id \in DOMAIN docs : docs[id].filename = f}

UniquePerChunk(docs) ==
  \A a, b \in DOMAIN docs :
    (docs[a].filename = docs[b].filename /\ docs[a].chunk_id = docs[b].chunk_id)
      => a = b

C6_Inv ==
  /\ UniquePerChunk(esDocs)
  /\ UniquePerChunk(esVisible)
  /\ \A u \in 1..NumUploads :
       HasEv(up[u].trace, "refresh_ok") =>
         /\ \A m \in 0..(Len(up[u].chunks) - 1) :
              ChunkId(up[u].filename, m) \in DOMAIN esDocs
         /\ (\A v \in 1..NumUploads :
               up[v].filename = up[u].filename => up[v].chunks = up[u].chunks)
              => Cardinality(EntriesOf(esDocs, up[u].filename)) = Len(up[u].chunks)

\* this step is the store accepting the write request u is waiting for
IndexAccepted(u) ==
  /\ up[u].pc = "indexing"
  /\ Len(up'[u].trace) > Len(up[u].trace)
  /\ up'[u].trace[Len(up[u].trace) + 1] = Ev("index_ok", up[u].i)

C6_Act ==
  \A u \in 1..NumUploads :
    IndexAccepted(u)
      => /\ up[u].request.id \in DOMAIN esDocs'
         /\ esDocs'[up[u].request.id] = up[u].request.body
         /\ \A id \in DOMAIN esDocs' :
              (esDocs'[id].filename = up[u].filename /\ esDocs'[id].chunk_id = up[u].i)
                => esDocs'[id].content = up[u].request.body.content
                   /\ esDocs'[id].embedding = up[u].request.body.embedding

\* C6: the index holds at most one entry per filename and chunk ordinal, in
\* what is written and in what a search sees; once ingestions of the same
\* filename and the same chunk list have completed, the index holds exactly
\* one entry per chunk of the list; and a write to an id that exists leaves
\* under that filename and ordinal the new text and vector only.
C6_UpsertById == [](C6_Inv) /\ [][C6_Act]_vars

C6_Witness ==
  \E u, v \in 1..NumUploads :
    /\ u # v
    /\ up[u].filename = up[v].filename
    /\ up[u].chunks = up[v].chunks
    /\ Len(up[u].chunks) = 4
    /\ HasEv(up[u].trace, "refresh_ok")
    /\ HasEv(up[v].trace, "refresh_ok")
    /\ Cardinality(EntriesOf(esDocs, up[u].filename)) = 4

Mapped == [exists |-> TRUE, dims |-> D]

\* C4: when two runs of initializeElasticsearch have both found the index
\* missing and both called create, and the create of one succeeded, both
\* runs return normally (the loser's error is logged, not thrown), only one
\* of them created the index, and the index exists with the dims-384
\* mapping.
C4_CreateRaceIsSafe ==
  \A p, q \in 1..NumInits :
    ( /\ p # q
      /\ ini[p].pc = "done" /\ ini[q].pc = "done"
      /\ HasEv(ini[p].trace, "create_call") /\ HasEv(ini[q].trace, "create_call")
      /\ ini[p].created )
    => /\ ini[p].result = "returned"
       /\ ini[q].result = "returned"
       /\ ~ini[q].created
       /\ esIndex = Mapped

C4_Witness ==
  \E p, q \in 1..NumInits :
    /\ p # q
    /\ ini[p].pc = "done" /\ ini[q].pc = "done"
    /\ ini[p].created
    /\ HasEv(ini[q].trace, "create_call")
    /\ ini[q].logged = "resource_already_exists_exception"
    /\ ini[q].result = "returned"
    /\ esIndex = Mapped

C5_Inv ==
  \A p \in 1..NumInits :
    /\ ini[p].sawExists
         => /\ ~HasEv(ini[p].trace, "create_call")
            /\ ini[p].pc = "done"
            /\ ini[p].result = "returned"
    /\ ini[p].created => esIndex = Mapped
    /\ \A k \in 1..Len(ini[p].trace) :
         ini[p].trace[k].op = "create_call" => ini[p].trace[k].n = D

C5_Act ==
  \A p \in 1..NumInits :
    ini'[p] # ini[p]
      => /\ esDocs' = esDocs
         /\ esVisible' = esVisible
         /\ esIndex.exists => esIndex' = esIndex
         /\ (~esIndex.exists /\ ini'[p].created) => esIndex' = Mapped
         /\ (~esIndex.exists /\ ~ini'[p].created) => esIndex' = esIndex

\* C5: a run of initializeElasticsearch that finds the index existing calls
\* no create and returns; a run whose create succeeds leaves the index
\* existing with dims 384; and no step of a run changes the entries, or the
\* index once it exists.
C5_CreateSchemaIdempotent == [](C5_Inv) /\ [][C5_Act]_vars

C5_Witness ==
  \E p \in 1..NumInits :
    /\ ini[p].sawExists
    /\ ini[p].pc = "done"
    /\ esIndex = Mapped
    /\ DOMAIN esDocs # {}

\* C7: a GET /documents and a search that start after DELETE
\* /documents/:filename was answered 200 do not show that filename, no
\* upload of that filename being under way since the delete began.
C7_DeletedSourceGone ==
  (/\ del.pc = "done" /\ del.resp.status = 200
   /\ \A u \in 1..NumUploads : up[u].filename = del.filename => u \in del.answered)
  => /\ (lst.afterDelete /\ lst.pc = "done" /\ lst.resp.status = 200)
          => \A d \in lst.resp.documents : d.filename # del.filename
     /\ qry.afterDelete
          => \A k \in 1..Len(qry.relevantChunks) :
               qry.relevantChunks[k].filename # del.filename

\* C8: every vector stored in the index has exactly D components.
C8_StoredVectorsHaveDimD ==
  \A id \in DOMAIN esDocs : esDocs[id].embedding.len = D

(***************************************************************************)
(* Properties of chunkText                                                 *)
(***************************************************************************)
\* s occurs in t as a contiguous run of characters
Occurs(s, t) ==
  \E i \in 1..(Len(t) - Len(s) + 1) : SubSeq(t, i, i + Len(s) - 1) = s

HasContent(text) ==
  \E i \in 1..Len(text) : text[i] \notin (Terminators \cup Whitespace)

\* C11 as stated: chunkText returns at least one chunk whenever the input
\* text is non-empty.
C11_NonEmptyTextHasChunk ==
  (ck.pc = "returned" /\ Len(ck.text) > 0) => Len(ck.result) >= 1

\* C11 as amended: chunkText returns at least one chunk whenever the input
\* text holds a character that is neither a sentence terminator nor
\* whitespace, for every chunkSize >= 1 and overlap >= 0.
C11_TextWithContentHasChunk ==
  (ck.pc = "returned" /\ HasContent(ck.text)) => Len(ck.result) >= 1

C11_Witness ==
  /\ ck.pc = "returned"
  /\ HasContent(ck.text)
  /\ Len(ck.sentences) >= 2
  /\ Len(ck.result) >= 1

RECURSIVE InOrder(_, _, _)
\* the sentences can be found, up to the whitespace around them, in chunks
\* from, from + 1, ... without ever going back to an earlier chunk
InOrder(sentences, chunks, from) ==
  IF sentences = <<>> THEN TRUE
  ELSE LET at == {j \in from..Len(chunks) : Occurs(Trim(Head(sentences)), chunks[j])}
       IN /\ at # {}
          /\ InOrder(Tail(sentences), chunks, CHOOSE j \in at : \A i \in at : j <= i)

\* C12: every non-blank sentence of the text appears (up to the whitespace
\* around it, which trimming removes) in at least one returned chunk, and
\* the sentences appear across the chunk sequence in their original order.
C12_SentencesCoveredInOrder ==
  ck.pc = "returned" => InOrder(ck.sentences, ck.result, 1)

C12_Witness ==
  /\ ck.pc = "returned"
  /\ Len(ck.sentences) >= 3
  /\ Len(ck.result) >= 3
  /\ ck.overlap >= 1

\* C13: a text of a single sentence longer than chunkSize yields exactly one
\* chunk, and that chunk holds the whole sentence.
C13_OversizedSentenceOneChunk ==
  (ck.pc = "returned" /\ Len(ck.sentences) = 1
     /\ Len(ck.sentences[1]) > ck.chunkSize)
    => /\ Len(ck.result) = 1
       /\ Occurs(Trim(ck.sentences[1]), ck.result[1])

C13_Witness ==
  /\ ck.pc = "returned"
  /\ Len(ck.sentences) = 1
  /\ Len(ck.sentences[1]) > ck.chunkSize
  /\ Len(ck.result) = 1

\* C14: chunkText on the empty text returns the empty sequence of chunks,
\* for every chunkSize and overlap.
C14_EmptyTextNoChunks ==
  (ck.pc = "returned" /\ ck.text = <<>>) => ck.result = <<>>

C14_Witness ==
  /\ ck.pc = "returned"
  /\ ck.text = <<>>
  /\ ck.result = <<>>
  /\ ck.overlap = MaxOverlap

\* the whitespace-delimited words of s: its maximal runs of characters that
\* are not whitespace
WsWords(s) ==
  LET n == Len(s)
      starts == {i \in 1..n : s[i] \notin Whitespace
                              /\ (i = 1 \/ s[i-1] \in Whitespace)}
      EndOf(i) == Kth({j \in i..n : j = n \/ s[j+1] \in Whitespace}, 1)
  IN [k \in 1..Cardinality(starts) |->
        SubSeq(s, Kth(starts, k), EndOf(Kth(starts, k)))]

\* the last min(k, n) of n words
LastWords(words, k) ==
  SubSeq(words, Len(words) - Min(k, Len(words)) + 1, Len(words))

\* C19: when chunkText closes a chunk with overlap >= 1, the next buffer is
\* the last min(overlap, n) whitespace-delimited words of the closed buffer
\* followed by the new sentence.
C19_SeedIsLastOverlapWords ==
  ck.overlap >= 1 =>
    \A e \in 1..Len(ck.log) :
      ck.log[e].seeded =
        JoinWords(LastWords(WsWords(ck.log[e].buffer), ck.overlap))
          \o <<" ">> \o ck.log[e].sentence

\* C20: with overlap = 0 nothing is carried over a chunk boundary: the
\* buffer that follows a closed chunk holds, up to the whitespace around it,
\* the new sentence only.
C20_ZeroOverlapCarriesNothing ==
  ck.overlap = 0 =>
    \A e \in 1..Len(ck.log) : Trim(ck.log[e].seeded) = Trim(ck.log[e].sentence)

(***************************************************************************)
(* Properties of the embedder's failures                                   *)
(***************************************************************************)
\* the embedding service answered the last fetch with a non-success status
NonSuccess(response) == ~response.rejected /\ ~response.ok

\* C15: when the embedding service answers with a non-success status,
\* getEmbeddings throws and the throw reaches the handler: the upload is
\* answered 500 with no index call and no entry for that chunk, the query
\* is answered 500 with no search call, and no vector takes the place of
\* the missing one.
C15_EmbedFailurePropagates ==
  /\ \A u \in 1..NumUploads :
       NonSuccess(up[u].response) =>
         /\ up[u].pc = "done"
         /\ up[u].resp.status = 500
         /\ up[u].resp.error = "HTTP error"
         /\ ~HasEvN(up[u].trace, "index_call", up[u].i)
         /\ \A id \in DOMAIN esDocs :
              ~(id.fn = up[u].filename /\ ~id.auto /\ id.n = up[u].i)
  /\ NonSuccess(qry.response) =>
       /\ qry.pc = "done"
       /\ qry.resp.status = 500
       /\ qry.resp.error = "HTTP error"
       /\ ~HasEv(qry.trace, "search_call")
       /\ qry.request = QueryIdle.request

C15_Witness ==
  /\ NonSuccess(up[1].response)
  /\ up[1].i = 1
  /\ HasEvN(up[1].trace, "index_ok", 0)
  /\ NonSuccess(qry.response)
  /\ qry.pc = "done"

\* a JSON payload that is a sequence of D numbers
WellFormed(json) == json.len = D

\* C16: a success response whose payload is not a sequence of D numbers
\* makes the embedder fail: the payload never becomes the embedding of an
\* index call nor the query vector of a search call.
C16_MalformedPayloadRejected ==
  /\ \A u \in 1..NumUploads :
       (up[u].response.ok /\ ~up[u].response.rejected
          /\ up[u].response # NoReply /\ ~WellFormed(up[u].response.json))
         => /\ up[u].pc = "done"
            /\ up[u].resp.status = 500
            /\ ~HasEvN(up[u].trace, "index_call", up[u].i)
  /\ (qry.response.ok /\ ~qry.response.rejected
        /\ qry.response # NoReply /\ ~WellFormed(qry.response.json))
       => /\ qry.pc = "done"
          /\ qry.resp.status = 500
          /\ ~HasEv(qry.trace, "search_call")

(***************************************************************************)
(* Properties of concurrent ingestions of one filename                     *)
(***************************************************************************)
\* indexDocument of request u has written chunk m
Wrote(u, m) == HasEvN(up[u].trace, "index_ok", m)

CallsOf(trace, op, n) == Cardinality({k \in 1..Len(trace) : trace[k] = Ev(op, n)})

C17_Inv ==
  /\ \A u, v \in 1..NumUploads : \A m \in 0..3 :
       (u # v /\ up[u].filename = up[v].filename /\ Wrote(u, m) /\ Wrote(v, m))
         => /\ ChunkId(up[u].filename, m) \in DOMAIN esDocs
            /\ Cardinality({id \in DOMAIN esDocs :
                              /\ esDocs[id].filename = up[u].filename
                              /\ esDocs[id].chunk_id = m}) = 1
            /\ esDocs[ChunkId(up[u].filename, m)].content
                  \in {up[w].chunks[m + 1] :
                         w \in {x \in 1..NumUploads :
                                  up[x].filename = up[u].filename /\ Wrote(x, m)}}
  /\ \A u \in 1..NumUploads :
       /\ \A m \in 0..Len(up[u].chunks) :
            /\ CallsOf(up[u].trace, "embed_call", m) <= 1
            /\ CallsOf(up[u].trace, "index_call", m) <= 1
       /\ HasEv(up[u].trace, "index_err") =>
            \/ up[u].resp.error = "unavailable"
            \/ /\ up[u].resp.error = "mapper_parsing_exception"
               /\ up[u].request.body.embedding.len # D

C17_Act ==
  /\ \A u \in 1..NumUploads :
       IndexAccepted(u)
         => /\ up[u].request.id \in DOMAIN esDocs'
            /\ esDocs'[up[u].request.id].content = up[u].chunks[up[u].i + 1]
            /\ \A id \in DOMAIN esDocs \ {up[u].request.id} :
                 id \in DOMAIN esDocs' /\ esDocs'[id] = esDocs[id]
  /\ (\A u \in 1..NumUploads : ~IndexAccepted(u)) => esDocs' = esDocs

\* C17: when ingestions of one filename interleave, every id both have
\* written is one entry; each accepted write replaces the content under its
\* id and nothing else changes an entry, so the entry holds the content of
\* the write applied last; no index call fails because the id exists (the
\* only failures are the store being unreachable and the request's own
\* vector being refused), and no chunk is embedded or written twice by one
\* ingestion.
C17_LastWriteWins == [](C17_Inv) /\ [][C17_Act]_vars

C17_Witness ==
  /\ up[1].filename = up[2].filename
  /\ Wrote(1, 0)
  /\ Wrote(2, 0)
  /\ up[1].chunks[1] # up[2].chunks[1]
  /\ HasEv(up[1].trace, "refresh_ok")
  /\ HasEv(up[2].trace, "refresh_ok")
  /\ esDocs[ChunkId(up[1].filename, 0)].content = up[1].chunks[1]

(***************************************************************************)
(* Properties of the store's failures                                      *)
(***************************************************************************)
\* C18: an error of the store during schema creation, insert or search is
\* not swallowed: initializeElasticsearch throws, and the handlers of
\* /upload and /query answer with a failure.
C18_StoreErrorsSurface ==
  /\ \A p \in 1..NumInits :
       (HasEv(ini[p].trace, "exists_err") \/ HasEv(ini[p].trace, "create_err"))
         => ini[p].result = "threw"
  /\ \A u \in 1..NumUploads :
       (HasEv(up[u].trace, "index_err") \/ HasEv(up[u].trace, "refresh_err"))
         => up[u].resp.status = 500
  /\ HasEv(qry.trace, "search_err") => qry.resp.status = 500

(***************************************************************************)
(* Properties of the chunks' lengths                                       *)
(***************************************************************************)
RECURSIVE MaxLen(_)
\* the length of the longest of a sequence of strings
MaxLen(seq) ==
  IF seq = <<>> THEN 0
  ELSE LET m == MaxLen(Tail(seq))
       IN IF Len(Head(seq)) > m THEN Len(Head(seq)) ELSE m

\* C21: every chunk chunkText returns is non-empty and at most chunkSize
\* plus one sentence with its terminator (". ") long, however many sentences
\* the text has.
C21_ChunksNonEmptyAndBounded ==
  ck.pc = "returned" =>
    \A j \in 1..Len(ck.result) :
      /\ Len(ck.result[j]) >= 1
      /\ Len(ck.result[j]) <= ck.chunkSize + MaxLen(ck.sentences) + 2

(***************************************************************************)
(* Properties of DELETE /documents/:filename                               *)
(***************************************************************************)
\* this step is deleteByQuery coming back to the handler
DeleteAnswered == del.pc = "deleting" /\ del'.pc = "done"

C22_Inv ==
  (del.pc = "done" /\ del.resp.status # 200) => del.logged = "unavailable"

C22_Act ==
  /\ \A id \in DOMAIN esDocs :
       id \notin DOMAIN esDocs'
         => DeleteAnswered /\ esDocs[id].filename = del.filename
  /\ DeleteAnswered =>
       /\ \A id \in DOMAIN esDocs :
            esDocs[id].filename # del.filename
              => id \in DOMAIN esDocs' /\ esDocs'[id] = esDocs[id]
       /\ DOMAIN esDocs' \subseteq DOMAIN esDocs
       /\ (\A id \in DOMAIN esDocs : esDocs[id].filename # del.filename)
            => esDocs' = esDocs

\* C22: the delete handler removes only entries of the filename it was
\* called with and leaves every other entry as it was; no other step takes
\* an entry out of the index; a delete that matches nothing changes nothing
\* and is answered 200, the one failure being a store that cannot be reached.
C22_DeleteOnlyMatching == [](C22_Inv) /\ [][C22_Act]_vars

C22_Witness ==
  /\ del.pc = "done"
  /\ del.resp.status = 200
  /\ \A u \in 1..NumUploads : up[u].filename # del.filename
  /\ \E id \in DOMAIN esVisible : id \in DOMAIN esDocs
  /\ \A id \in DOMAIN esVisible : esVisible[id].filename # del.filename

(***************************************************************************)
(* Properties of the calls a request makes                                 *)
(***************************************************************************)
CountOp(trace, op) == Cardinality({k \in 1..Len(trace) : trace[k].op = op})

Failures == {"embed_err", "index_err", "refresh_err", "search_err"}

\* nothing follows a failed call in the trace
FailureIsLast(trace) ==
  \A k \in 1..Len(trace) : trace[k].op \in Failures => k = Len(trace)

\* C23: no call is retried.  An ingestion calls the embedder at most once
\* and the index write at most once for each chunk, and each write follows
\* the embedding of its chunk; a query that has a question calls the
\* embedder exactly once, first, and searches at most once, after the
\* embedding came back; a failed call is the last call of its request.
C23_NoRetry ==
  /\ \A u \in 1..NumUploads :
       /\ \A m \in 0..Len(up[u].chunks) :
            /\ CallsOf(up[u].trace, "embed_call", m) <= 1
            /\ CallsOf(up[u].trace, "index_call", m) <= 1
            /\ CallsOf(up[u].trace, "index_call", m)
                 <= CallsOf(up[u].trace, "embed_ok", m)
       /\ CountOp(up[u].trace, "embed_call") <= Len(up[u].chunks)
       /\ CountOp(up[u].trace, "refresh_call") <= 1
       /\ FailureIsLast(up[u].trace)
  /\ (qry.pc # "idle" /\ qry.resp.status # 400) =>
       /\ CountOp(qry.trace, "embed_call") = 1
       /\ qry.trace[1].op = "embed_call"
       /\ CountOp(qry.trace, "search_call") <= CountOp(qry.trace, "embed_ok")
       /\ CountOp(qry.trace, "search_call") <= 1
       /\ FailureIsLast(qry.trace)

C23_Witness ==
  /\ up[1].pc = "done"
  /\ HasEvN(up[1].trace, "index_ok", 1)
  /\ HasEvN(up[1].trace, "index_err", 2)
  /\ qry.pc = "done"
  /\ HasEv(qry.trace, "search_err")

(***************************************************************************)
(* Properties of GET /documents                                            *)
(***************************************************************************)
\* filename -> number of entries, for the filenames that have entries
SourceCounts(docs) ==
  {[filename |-> f,
    chunks |-> Cardinality({id \in DOMAIN docs : docs[id].filename = f})] :
     f \in {docs[id].filename : id \in DOMAIN docs}}

\* this step is the aggregation coming back to the handler, which answers 200
ListAnswered == lst.pc = "listing" /\ lst'.pc = "done" /\ lst'.resp.status = 200

C24_Act ==
  (ListAnswered
     /\ \A u \in 1..NumUploads :
          up[u].pc = "idle" \/ (up[u].pc = "done" /\ up[u].resp.status = 200))
    => lst'.resp.documents = SourceCounts(esDocs)

\* C24: the mapping GET /documents answers with holds every filename that
\* has an entry in the index with its exact number of entries, and no other
\* filename (looked at when no ingestion is under way or has failed).
C24_ListIsExact == [][C24_Act]_vars

(***************************************************************************)
(* Properties of the staged files and their names                          *)
(***************************************************************************)
\* C25: two upload requests are never given the same stored filename, so
\* the entries of two uploads never share a filename or an id.
C25_DistinctSourceIds ==
  \A u, v \in 1..NumUploads :
    (u # v /\ up[u].filename # NoFilename /\ up[v].filename # NoFilename)
      => up[u].filename # up[v].filename

\* C26: once the upload handler has answered a request whose PDF was
\* accepted, the file staged for it is no longer in data/.
C26_StagedFileRemoved ==
  \A u \in 1..NumUploads :
    (up[u].pc = "done" /\ up[u].filename # NoFilename)
      => up[u].filename \notin DOMAIN dataDir
====
